---- MODULE Spec2Model ----
(***************************************************************************)
(* Model of src/src/lib/scweet-service.py: a FastAPI service that wraps    *)
(* the Scweet and Twikit libraries behind six data endpoints and a Redis   *)
(* cache.  Handlers are translated statement by statement; the libraries   *)
(* and Redis are the environment and answer nondeterministically.         *)
(***************************************************************************)
EXTENDS Integers, Sequences, FiniteSets, TLC

(* ------------------------------ bounds -------------------------------- *)
\* number of requests accepted in one behaviour
MaxRequests == 2

(* ------------------------- program constants ------------------------- *)
TWEET_TTL == 300
ENGAGEMENT_TTL == 60
USER_TTL == 1800

(* ------------------------- optional values --------------------------- *)
\* Python's None and a present value, as sequences of length 0 and 1.
None == << >>
Some(v) == << v >>

\* dict.get(key, default) on a dict modelled as a function on its keys.
Get(d, k, default) == IF k \in DOMAIN d THEN d[k] ELSE default

(* ------------------------------ inputs -------------------------------- *)
\* Characters of a URL's last segment: 0..9 are digits, 10 is a letter.
IsDigit(c) == c \in 0..9

\* A tweet URL "https://<host>/<user>/<seg>/<tail>".
Urls ==
  { [host |-> "x.com",       user |-> "alice", seg |-> "status", tail |-> <<1>>],
    [host |-> "example.com", user |-> "alice", seg |-> "status", tail |-> <<1>>],
    [host |-> "twitter.com", user |-> "alice", seg |-> "status", tail |-> <<10>>] }

Usernames == {"alice", "bob"}

RECURSIVE DigitRun(_)
\* The longest run of digits at the head of s: the group (\d+) matches it.
DigitRun(s) ==
  IF s = << >> \/ ~IsDigit(Head(s)) THEN << >>
  ELSE <<Head(s)>> \o DigitRun(Tail(s))

\* re.search(r'/status/(\d+)', tweet_url): [ok, value]; ~ok is the ValueError.
extract_tweet_id(tweet_url) ==
  IF tweet_url.seg = "status" /\ DigitRun(tweet_url.tail) # << >>
  THEN [ok |-> TRUE, value |-> DigitRun(tweet_url.tail)]
  ELSE [ok |-> FALSE, value |-> << >>]

\* Variant of extract_username: any host is accepted.
extract_username_AnyHost(tweet_url) ==
  IF tweet_url.user # "" /\ tweet_url.seg = "status"
  THEN [ok |-> TRUE, value |-> tweet_url.user]
  ELSE [ok |-> FALSE, value |-> ""]

\* re.search(r'(?:x\.com|twitter\.com)/([^/]+)/status/', tweet_url)
extract_username(tweet_url) ==
  IF /\ tweet_url.host \in {"x.com", "twitter.com"}
     /\ tweet_url.user # ""
     /\ tweet_url.seg = "status"
  THEN [ok |-> TRUE, value |-> tweet_url.user]
  ELSE [ok |-> FALSE, value |-> ""]

\* str(...).endswith(tweet_id)
EndsWith(s, suffix) ==
  /\ Len(s) >= Len(suffix)
  /\ SubSeq(s, Len(s) - Len(suffix) + 1, Len(s)) = suffix

(* ------------------------------ texts --------------------------------- *)
\* A text is a sequence of words; '' is the empty sequence.
LowerWord(w) ==
  CASE w = "@LayerEdge" -> "@layeredge"
    [] w = "$EDGEN" -> "$edgen"
    [] OTHER -> w

\* content.lower()
Lower(content) == [i \in DOMAIN content |-> LowerWord(content[i])]

\* '@layeredge' in content_lower or '$edgen' in content_lower
check_layeredge_community(content) ==
  LET content_lower == Lower(content)
  IN  \/ \E i \in DOMAIN content_lower : content_lower[i] = "@layeredge"
      \/ \E i \in DOMAIN content_lower : content_lower[i] = "$edgen"

(* ------------------------------- state -------------------------------- *)
VARIABLES
  scweet_instance,  \* TRUE when the global holds a Scweet object
  twikit_client,    \* TRUE when the global holds a Twikit client
  redis_client,     \* TRUE when the global holds a Redis client
  redis_ok,         \* environment: the Redis server answers (else calls raise)
  cache,            \* the Redis key space: key -> [data, expires, origin]
  now,              \* the clock, in seconds
  nreq,             \* requests accepted so far
  inflight,         \* handlers suspended at an awaited Twikit call
  last,             \* log of the request that has just completed, if any
  family            \* the key family that the requests of this behaviour address

vars == << scweet_instance, twikit_client, redis_client, redis_ok, cache, now,
           nreq, inflight, last, family >>

\* Slots for handlers suspended in the event loop.
Procs == {1, 2}

\* datetime.utcnow().isoformat()
IsoFormat(t) == <<"utcnow", t>>

EmptyDict == << >>

(* ------------------------------- Redis -------------------------------- *)
\* json.dumps(data, default=str): every value of a response_data is JSON-native,
\* so the document holds the dict itself.
JsonDumps(data) == [json |-> data]

\* json.loads(data)
JsonLoads(doc) == doc.json

\* Variant of RedisGet: a key is never evicted when its TTL elapses.
RedisGet_NoExpiry(key) ==
  IF key \in DOMAIN cache THEN Some(cache[key].data) ELSE None

\* redis GET: the value, or None when the key is absent or its TTL has elapsed.
RedisGet(key) ==
  IF key \in DOMAIN cache /\ now < cache[key].expires
  THEN Some(cache[key].data)
  ELSE None

\* Variant of RedisSetex: a key that holds an unexpired value is left as it is.
RedisSetex_KeepExisting(c, key, ttl, value, origin) ==
  IF key \in DOMAIN c /\ now < c[key].expires THEN c
  ELSE (key :> [data |-> value, expires |-> now + ttl, origin |-> origin]) @@ c

\* redis SETEX key ttl value.  origin is a ghost field: the time of the library
\* fetch that produced the stored counts.
RedisSetex(c, key, ttl, value, origin) ==
  (key :> [data |-> value, expires |-> now + ttl, origin |-> origin]) @@ c

\* Variant of get_cached_data: a Redis error is not treated as a miss (the
\* value last cached is returned).
get_cached_data_ErrorNotMiss(key) ==
  IF ~redis_client THEN None
  ELSE LET data == RedisGet(key)
       IN  IF data # None THEN Some(JsonLoads(data[1])) ELSE None

\* get_cached_data: None without a client, on a Redis error, and on a miss.
get_cached_data(key) ==
  IF ~redis_client THEN None
  ELSE IF ~redis_ok THEN None
  ELSE LET data == RedisGet(key)
       IN  IF data # None THEN Some(JsonLoads(data[1])) ELSE None

\* Variant of set_cached_data: nothing is stored.
set_cached_data_Skip(c, key, data, ttl, origin) == c

\* set_cached_data: the key space after the call; a Redis error is swallowed.
set_cached_data(c, key, data, ttl, origin) ==
  IF ~redis_client THEN c
  ELSE IF ~redis_ok THEN c
  ELSE RedisSetex(c, key, ttl, JsonDumps(data), origin)

\* The keys on which redis_client.get is invoked by get_cached_data(key).
CacheReads(key) == IF redis_client THEN {key} ELSE {}

\* The (key, ttl) pairs on which redis_client.setex is invoked.
CacheWrites(key, ttl) == IF redis_client THEN {<<key, ttl>>} ELSE {}

\* Ghost: the fetch time recorded with the entry a lookup returned.
OriginOf(key) == cache[key].origin

\* Variant of CacheHit: the cached entry is never used.
CacheHit_Never(cached_data) == FALSE

\* `if cached_data:` in the handlers.
CacheHit(cached_data) == cached_data # None

(* ------------------------------ cache keys ---------------------------- *)
TweetKey(tweet_id) == <<"tweet:", tweet_id>>
EngagementKey(tweet_id) == <<"engagement:", tweet_id>>
UserKey(username) == <<"user:", username>>
TwikitTweetKey(tweet_id) == <<"twikit_tweet:", tweet_id>>
TwikitEngagementKey(tweet_id) == <<"twikit_engagement:", tweet_id>>
TwikitUserKey(username) == <<"twikit_user:", username>>

(* ----------------------------- exceptions ----------------------------- *)
HTTPException(status_code, detail) ==
  [type |-> "HTTPException", status |-> status_code, detail |-> detail]
ValueError(msg) == [type |-> "ValueError", status |-> 0, detail |-> msg]
LibraryError == [type |-> "Exception", status |-> 0, detail |-> "library error"]
NoExc == [type |-> "", status |-> 200, detail |-> ""]

\* What a try body, or a whole handler, did: a returned body or a raised exception,
\* the key space it leaves, and the library calls and Redis calls it made.
\* origin is a ghost: the time of the library fetch behind the returned counts.
Return(body, c, calls, reads, writes, origin) ==
  [kind |-> "return", exc |-> NoExc, body |-> Some(body), cache |-> c,
   calls |-> calls, reads |-> reads, writes |-> writes, origin |-> origin]

Raise(exc, c, calls, reads, writes) ==
  [kind |-> "raise", exc |-> exc, body |-> None, cache |-> c,
   calls |-> calls, reads |-> reads, writes |-> writes, origin |-> -1]

\* Variant of ExceptClauses: no `except Exception` clause closes the try block.
ExceptClauses_NoCatchAll(out, has_value_error_clause, message) ==
  IF out.kind # "raise" THEN out
  ELSE IF has_value_error_clause /\ out.exc.type = "ValueError"
       THEN [out EXCEPT !.exc = HTTPException(400, out.exc.detail)]
       ELSE out

\* The except clauses that close a handler's try block, in order:
\*   except ValueError as e: raise HTTPException(400, str(e))   (when present)
\*   except Exception as e:  raise HTTPException(500, <message>)
\* HTTPException is an Exception and not a ValueError.
ExceptClauses(out, has_value_error_clause, message) ==
  IF out.kind # "raise" THEN out
  ELSE IF has_value_error_clause /\ out.exc.type = "ValueError"
       THEN [out EXCEPT !.exc = HTTPException(400, out.exc.detail)]
       ELSE [out EXCEPT !.exc = HTTPException(500, message)]

(* ------------------------ the Scweet library -------------------------- *)
\* Tweets as Scweet's scrape() returns them: dicts keyed by Scweet's column
\* names.  Counts are strings, which the handler passes to int(): strings of
\* digits, or an abbreviated count such as "1K" (the characters 1 and 10).
ScweetTweets ==
  { [tweetId |-> <<1>>, Text |-> <<"gm">>, Likes |-> <<5>>, Retweets |-> <<2>>,
     Replies |-> <<1>>, Timestamp |-> <<"scweet", 0>>],
    [tweetId |-> <<1>>, Text |-> <<"gm", "@LayerEdge">>, Likes |-> <<1, 7>>,
     Retweets |-> <<3>>, Replies |-> <<1>>, Timestamp |-> <<"scweet", 0>>],
    [tweetId |-> <<1>>],
    [tweetId |-> <<2, 1>>, Text |-> <<"$EDGEN">>, Likes |-> <<9>>,
     Retweets |-> <<0>>, Replies |-> <<4>>, Timestamp |-> <<"scweet", 0>>],
    [tweetId |-> <<1>>, Text |-> <<"gm">>, Likes |-> <<1, 10>>],
    [tweetId |-> <<3>>] }

\* What one call of scweet_instance.scrape(...) can do: raise, or return a list.
ScrapeOutcomes ==
  { [raises |-> TRUE, results |-> << >>], [raises |-> FALSE, results |-> << >>] }
  \cup { [raises |-> FALSE, results |-> <<t>>] :
           t \in {x \in ScweetTweets :
                   x.tweetId # <<2, 1>> /\ Get(x, "Likes", << >>) # <<1, 7>>} }
  \cup { [raises |-> FALSE, results |-> <<t, u>>] :
           t \in {x \in ScweetTweets : x.tweetId = <<2, 1>>},
           u \in {x \in ScweetTweets : Get(x, "Likes", << >>) = <<1, 7>>} }

\* Profiles as get_user_information() returns them, keyed by handle.  A value of
\* a dict or of a JSON object is Some(v), or None for Python's None / JSON null.
ScweetProfiles ==
  { [name |-> Some("Alice A"), description |-> Some("builder"),
     followers |-> Some(10), following |-> Some(3), verified |-> Some(TRUE),
     location |-> Some("Paris"), website |-> Some("https://a.example"),
     join_date |-> Some("2020-01")],
    [followers |-> Some(4)] }

\* What one call of get_user_information(handles=[username]) can do: raise, or
\* return a dict that holds the handle, another handle, or nothing.
UserInformationOutcomes(username) ==
  { [raises |-> TRUE, data |-> EmptyDict], [raises |-> FALSE, data |-> EmptyDict] }
  \cup { [raises |-> FALSE, data |-> (username :> p)] : p \in ScweetProfiles }
  \cup { [raises |-> FALSE, data |-> ("carol" :> p)] :
           p \in {x \in ScweetProfiles : "name" \notin DOMAIN x} }

\* int(s) returns for a non-empty string of digits and raises ValueError otherwise.
IntOk(s) == s # << >> /\ \A i \in DOMAIN s : IsDigit(s[i])

\* The three int(...) conversions of get_tweet_data all return.
CountsOk(tweet_data) ==
  \A f \in {"Likes", "Retweets", "Replies"} : IntOk(Get(tweet_data, f, <<0>>))

RECURSIVE ToInt(_)
\* int(s) for a string of digits s.
ToInt(s) == IF s = << >> THEN 0 ELSE 10 * ToInt(SubSeq(s, 1, Len(s) - 1)) + s[Len(s)]

\* Variant of FindTweet: the first result is taken whatever its id.
FindTweet_First(results, tweet_id) ==
  IF results = << >> THEN None ELSE Some(Head(results))

RECURSIVE FindTweet(_, _)
\* for tweet in results: if str(tweet.get('tweetId', '')).endswith(tweet_id): ... break
FindTweet(results, tweet_id) ==
  IF results = << >> THEN None
  ELSE IF EndsWith(Get(Head(results), "tweetId", << >>), tweet_id)
       THEN Some(Head(results))
       ELSE FindTweet(Tail(results), tweet_id)

(* --------------------------- response models -------------------------- *)
\* TweetResponse(**d): the declared fields, with the model's defaults.
TweetResponse(d) ==
  [tweet_id |-> d.tweet_id, content |-> d.content, author |-> d.author,
   engagement |-> d.engagement, created_at |-> d.created_at,
   source |-> Get(d, "source", "scweet"),
   is_from_layeredge_community |-> Get(d, "is_from_layeredge_community", FALSE)]

\* EngagementResponse(**d)
EngagementResponse(d) ==
  [likes |-> d.likes, retweets |-> d.retweets, replies |-> d.replies,
   timestamp |-> d.timestamp, source |-> Get(d, "source", "scweet")]

\* UserInfoResponse(**d)
UserInfoResponse(d) ==
  [username |-> d.username, display_name |-> d.display_name, bio |-> d.bio,
   followers_count |-> d.followers_count, following_count |-> d.following_count,
   verified |-> d.verified, location |-> Get(d, "location", None),
   website |-> Get(d, "website", None), join_date |-> Get(d, "join_date", None)]

\* TweetRequest(tweet_url=...): include_engagement and include_user_info default to True.
TweetRequest(tweet_url) ==
  [tweet_url |-> tweet_url, include_engagement |-> TRUE, include_user_info |-> TRUE]

TweetRequests ==
  { [tweet_url |-> u, include_engagement |-> TRUE, include_user_info |-> i] :
      u \in Urls, i \in BOOLEAN }
EngagementRequests == { [tweet_url |-> u] : u \in Urls }
UserInfoRequests == { [username |-> n, include_followers |-> FALSE] : n \in Usernames }

(* -------------------------- Scweet endpoints -------------------------- *)
\* Variant of ScweetReady: the handlers do not test scweet_instance.
ScweetReady_Always == TRUE

\* `if not scweet_instance:` and `if not twikit_client:` at the head of a handler.
ScweetReady == scweet_instance
TwikitReady == twikit_client

\* The library answers drawn for one request of a Scweet endpoint.
ScweetLib(username) ==
  { [scrape |-> s, user_information |-> u] :
      s \in ScrapeOutcomes, u \in UserInformationOutcomes(username) }

\* Variant of TweetUserInfo: a profile returned under another handle is used.
TweetUserInfo_AnyProfile(request, username, lib) ==
  IF ~request.include_user_info THEN EmptyDict
  ELSE IF lib.user_information.raises THEN EmptyDict
  ELSE IF DOMAIN lib.user_information.data # {}
       THEN lib.user_information.data[
              CHOOSE k \in DOMAIN lib.user_information.data : TRUE]
       ELSE EmptyDict

\* user_info of get_tweet_data: {} unless requested, found and not raising.
TweetUserInfo(request, username, lib) ==
  IF ~request.include_user_info THEN EmptyDict
  ELSE IF lib.user_information.raises THEN EmptyDict
  ELSE IF /\ DOMAIN lib.user_information.data # {}
          /\ username \in DOMAIN lib.user_information.data
       THEN lib.user_information.data[username]
       ELSE EmptyDict

\* response_data of get_tweet_data
TweetResponseData(tweet_id, username, tweet_data, user_info) ==
  [tweet_id |-> tweet_id,
   content |-> Get(tweet_data, "Text", << >>),
   author |-> [username |-> username,
               display_name |-> Get(user_info, "name", Some(username)),
               verified |-> Get(user_info, "verified", Some(FALSE)),
               followers_count |-> Get(user_info, "followers", Some(0)),
               following_count |-> Get(user_info, "following", Some(0))],
   engagement |-> [likes |-> ToInt(Get(tweet_data, "Likes", <<0>>)),
                   retweets |-> ToInt(Get(tweet_data, "Retweets", <<0>>)),
                   replies |-> ToInt(Get(tweet_data, "Replies", <<0>>))],
   created_at |-> Get(tweet_data, "Timestamp", IsoFormat(now)),
   source |-> "scweet",
   is_from_layeredge_community |->
     check_layeredge_community(Get(tweet_data, "Text", << >>))]

\* The try block of get_tweet_data, after both identifiers were extracted and
\* the cache lookup missed.
TweetScrape(request, tweet_id, username, cache_key, lib) ==
  IF lib.scrape.raises
  THEN Raise(LibraryError, cache, {"scrape"}, CacheReads(cache_key), {})
  ELSE LET tweet_data == FindTweet(lib.scrape.results, tweet_id)
       IN  IF tweet_data = None
           THEN Raise(HTTPException(404, "Tweet not found in recent tweets"),
                      cache, {"scrape"}, CacheReads(cache_key), {})
           ELSE LET calls == {"scrape"} \cup
                             (IF request.include_user_info
                              THEN {"get_user_information"} ELSE {})
                    response_data ==
                      TweetResponseData(tweet_id, username, tweet_data[1],
                                        TweetUserInfo(request, username, lib))
                IN  IF ~CountsOk(tweet_data[1])
                    THEN Raise(ValueError("invalid literal for int() with base 10"),
                               cache, calls, CacheReads(cache_key), {})
                    ELSE Return(TweetResponse(response_data),
                                set_cached_data(cache, cache_key, response_data,
                                                TWEET_TTL, now),
                                calls, CacheReads(cache_key),
                                CacheWrites(cache_key, TWEET_TTL), now)

\* The try block of get_tweet_data.
TweetTry(request, lib) ==
  LET tweet_id == extract_tweet_id(request.tweet_url)
      username == extract_username(request.tweet_url)
      cache_key == TweetKey(tweet_id.value)
      cached_data == get_cached_data(cache_key)
  IN  IF ~tweet_id.ok
      THEN Raise(ValueError("Invalid tweet URL format"), cache, {}, {}, {})
      ELSE IF ~username.ok
      THEN Raise(ValueError("Cannot extract username from URL"), cache, {}, {}, {})
      ELSE IF CacheHit(cached_data)
      THEN Return(TweetResponse(cached_data[1]), cache, {}, CacheReads(cache_key),
                  {}, OriginOf(cache_key))
      ELSE TweetScrape(request, tweet_id.value, username.value, cache_key, lib)

\* POST /tweet
get_tweet_data(request, lib) ==
  IF ~ScweetReady
  THEN Raise(HTTPException(503, "Scweet service not initialized"), cache, {}, {}, {})
  ELSE ExceptClauses(TweetTry(request, lib), TRUE, "Failed to scrape tweet data")

\* The try block of get_engagement_metrics after its own lookup missed: the
\* nested get_tweet_data call, whose HTTPException propagates into this try.
EngagementFetch(request, tweet_id, cache_key, lib) ==
  LET tweet_data == get_tweet_data(TweetRequest(request.tweet_url), lib)
      reads == CacheReads(cache_key) \cup tweet_data.reads
  IN  IF tweet_data.kind = "raise"
      THEN Raise(tweet_data.exc, tweet_data.cache, tweet_data.calls, reads,
                 tweet_data.writes)
      ELSE LET response_data ==
                 [likes |-> tweet_data.body[1].engagement.likes,
                  retweets |-> tweet_data.body[1].engagement.retweets,
                  replies |-> tweet_data.body[1].engagement.replies,
                  timestamp |-> IsoFormat(now),
                  source |-> "scweet"]
           IN  Return(EngagementResponse(response_data),
                      set_cached_data(tweet_data.cache, cache_key, response_data,
                                      ENGAGEMENT_TTL, tweet_data.origin),
                      tweet_data.calls, reads,
                      tweet_data.writes \cup CacheWrites(cache_key, ENGAGEMENT_TTL), tweet_data.origin)

\* The try block of get_engagement_metrics.
EngagementTry(request, lib) ==
  LET tweet_id == extract_tweet_id(request.tweet_url)
      cache_key == EngagementKey(tweet_id.value)
      cached_data == get_cached_data(cache_key)
  IN  IF ~tweet_id.ok
      THEN Raise(ValueError("Invalid tweet URL format"), cache, {}, {}, {})
      ELSE IF CacheHit(cached_data)
      THEN Return(EngagementResponse(cached_data[1]), cache, {},
                  CacheReads(cache_key), {}, OriginOf(cache_key))
      ELSE EngagementFetch(request, tweet_id.value, cache_key, lib)

\* POST /engagement
get_engagement_metrics(request, lib) ==
  IF ~ScweetReady
  THEN Raise(HTTPException(503, "Scweet service not initialized"), cache, {}, {}, {})
  ELSE ExceptClauses(EngagementTry(request, lib), FALSE,
                     "Failed to get engagement metrics")

\* response_data of get_user_info
UserResponseData(username, user_info) ==
  [username |-> username,
   display_name |-> Get(user_info, "name", Some(username)),
   bio |-> Get(user_info, "description", Some("")),
   followers_count |-> Get(user_info, "followers", Some(0)),
   following_count |-> Get(user_info, "following", Some(0)),
   verified |-> Get(user_info, "verified", Some(FALSE)),
   location |-> Get(user_info, "location", None),
   website |-> Get(user_info, "website", None),
   join_date |-> Get(user_info, "join_date", None)]

\* The try block of get_user_info.
UserTry(request, lib) ==
  LET cache_key == UserKey(request.username)
      cached_data == get_cached_data(cache_key)
      user_data == lib.user_information.data
  IN  IF CacheHit(cached_data)
      THEN Return(UserInfoResponse(cached_data[1]), cache, {},
                  CacheReads(cache_key), {}, OriginOf(cache_key))
      ELSE IF lib.user_information.raises
      THEN Raise(LibraryError, cache, {"get_user_information"},
                 CacheReads(cache_key), {})
      ELSE IF DOMAIN user_data = {} \/ request.username \notin DOMAIN user_data
      THEN Raise(HTTPException(404, "User not found or profile is private"),
                 cache, {"get_user_information"}, CacheReads(cache_key), {})
      ELSE LET response_data ==
                 UserResponseData(request.username, user_data[request.username])
           IN  Return(UserInfoResponse(response_data),
                      set_cached_data(cache, cache_key, response_data, USER_TTL, now),
                      {"get_user_information"}, CacheReads(cache_key),
                      CacheWrites(cache_key, USER_TTL), now)

\* POST /user
get_user_info(request, lib) ==
  IF ~ScweetReady
  THEN Raise(HTTPException(503, "Scweet service not initialized"), cache, {}, {}, {})
  ELSE ExceptClauses(UserTry(request, lib), FALSE, "Failed to get user information")

(* ------------------------ the Twikit library -------------------------- *)
\* Twikit objects: an attribute is Some(v), or None when the library has no value.
TwikitUsers ==
  { [screen_name |-> "alice", name |-> Some("Alice A"),
     description |-> Some("builder"), followers_count |-> Some(10),
     following_count |-> Some(3), verified |-> Some(TRUE),
     location |-> Some("Paris"), url |-> Some("https://a.example"),
     created_at |-> Some(<<"twikit", 0>>)],
    [screen_name |-> "alice", name |-> None, description |-> None,
     followers_count |-> None, following_count |-> None, verified |-> None,
     location |-> None, url |-> None, created_at |-> None] }

TwikitTweets ==
  { [text |-> Some(<<"gm", "$EDGEN">>), user |-> Some(u),
     favorite_count |-> Some(IF u.name = None THEN 17 ELSE 5),
     retweet_count |-> Some(2), reply_count |-> Some(1),
     created_at |-> Some(<<"twikit", 0>>)] : u \in TwikitUsers }
  \cup { [text |-> None, user |-> None, favorite_count |-> None,
          retweet_count |-> None, reply_count |-> None, created_at |-> None] }

\* What an awaited Twikit call can do: raise, return None, or return the object.
TweetByIdOutcomes ==
  { [raises |-> TRUE, value |-> None], [raises |-> FALSE, value |-> None] }
  \cup { [raises |-> FALSE, value |-> Some(t)] : t \in TwikitTweets }

UserByScreenNameOutcomes ==
  { [raises |-> TRUE, value |-> None], [raises |-> FALSE, value |-> None] }
  \cup { [raises |-> FALSE, value |-> Some(u)] : u \in TwikitUsers }

\* `x or default` for an attribute x that is None or a truthy value.
OrElse(x, default) == IF x = None THEN default ELSE x[1]

(* -------------------------- Twikit endpoints -------------------------- *)
\* A handler that reached its awaited library call: it is suspended there.
Await(cache_key, reads) ==
  [kind |-> "await", exc |-> NoExc, body |-> None, cache |-> cache, calls |-> {},
   reads |-> reads, writes |-> {}, origin |-> -1, cache_key |-> cache_key]

\* user_info of get_tweet_data_twikit: the dict always holds its four keys.
TwikitUserInfo(request, tweet) ==
  IF request.include_user_info /\ tweet.user # None
  THEN [name |-> tweet.user[1].name, verified |-> tweet.user[1].verified,
        followers |-> tweet.user[1].followers_count,
        following |-> tweet.user[1].following_count]
  ELSE EmptyDict

\* response_data of get_tweet_data_twikit
TwikitTweetResponseData(tweet_id, tweet, user_info) ==
  LET screen_name == IF tweet.user # None THEN tweet.user[1].screen_name
                     ELSE "unknown"
  IN  [tweet_id |-> tweet_id,
       content |-> OrElse(tweet.text, << >>),
       author |-> [username |-> screen_name,
                   display_name |-> Get(user_info, "name", Some(screen_name)),
                   verified |-> Get(user_info, "verified", Some(FALSE)),
                   followers_count |-> Get(user_info, "followers", Some(0)),
                   following_count |-> Get(user_info, "following", Some(0))],
       engagement |-> [likes |-> OrElse(tweet.favorite_count, 0),
                       retweets |-> OrElse(tweet.retweet_count, 0),
                       replies |-> OrElse(tweet.reply_count, 0)],
       created_at |-> OrElse(tweet.created_at, IsoFormat(now)),
       source |-> "twikit",
       is_from_layeredge_community |->
         check_layeredge_community(OrElse(tweet.text, << >>))]

\* get_tweet_data_twikit up to `await twikit_client.get_tweet_by_id(tweet_id)`.
TwikitTweetBegin(request) ==
  LET tweet_id == extract_tweet_id(request.tweet_url)
      cache_key == TwikitTweetKey(tweet_id.value)
      cached_data == get_cached_data(cache_key)
  IN  IF ~tweet_id.ok
      THEN Raise(ValueError("Invalid tweet URL format"), cache, {}, {}, {})
      ELSE IF CacheHit(cached_data)
      THEN Return(TweetResponse(cached_data[1]), cache, {}, CacheReads(cache_key),
                  {}, OriginOf(cache_key))
      ELSE Await(cache_key, CacheReads(cache_key))

\* get_tweet_data_twikit from the point where the awaited call completes.
TwikitTweetEnd(request, cache_key, reads, answer) ==
  IF answer.raises
  THEN Raise(LibraryError, cache, {"get_tweet_by_id"}, reads, {})
  ELSE IF answer.value = None
  THEN Raise(HTTPException(404, "Tweet not found via Twikit"), cache,
             {"get_tweet_by_id"}, reads, {})
  ELSE LET response_data ==
             TwikitTweetResponseData(cache_key[2], answer.value[1],
                                     TwikitUserInfo(request, answer.value[1]))
       IN  Return(TweetResponse(response_data),
                  set_cached_data(cache, cache_key, response_data, TWEET_TTL, now),
                  {"get_tweet_by_id"}, reads, CacheWrites(cache_key, TWEET_TTL), now)

\* get_engagement_metrics_twikit up to its awaited call.
TwikitEngagementBegin(request) ==
  LET tweet_id == extract_tweet_id(request.tweet_url)
      cache_key == TwikitEngagementKey(tweet_id.value)
      cached_data == get_cached_data(cache_key)
  IN  IF ~tweet_id.ok
      THEN Raise(ValueError("Invalid tweet URL format"), cache, {}, {}, {})
      ELSE IF CacheHit(cached_data)
      THEN Return(EngagementResponse(cached_data[1]), cache, {},
                  CacheReads(cache_key), {}, OriginOf(cache_key))
      ELSE Await(cache_key, CacheReads(cache_key))

\* get_engagement_metrics_twikit from the point where the awaited call completes.
TwikitEngagementEnd(request, cache_key, reads, answer) ==
  IF answer.raises
  THEN Raise(LibraryError, cache, {"get_tweet_by_id"}, reads, {})
  ELSE IF answer.value = None
  THEN Raise(HTTPException(404, "Tweet not found via Twikit"), cache,
             {"get_tweet_by_id"}, reads, {})
  ELSE LET tweet == answer.value[1]
           response_data ==
             [likes |-> OrElse(tweet.favorite_count, 0),
              retweets |-> OrElse(tweet.retweet_count, 0),
              replies |-> OrElse(tweet.reply_count, 0),
              timestamp |-> IsoFormat(now),
              source |-> "twikit"]
       IN  Return(EngagementResponse(response_data),
                  set_cached_data(cache, cache_key, response_data,
                                  ENGAGEMENT_TTL, now),
                  {"get_tweet_by_id"}, reads,
                  CacheWrites(cache_key, ENGAGEMENT_TTL), now)

\* get_user_info_twikit up to its awaited call.
TwikitUserBegin(request) ==
  LET cache_key == TwikitUserKey(request.username)
      cached_data == get_cached_data(cache_key)
  IN  IF CacheHit(cached_data)
      THEN Return(UserInfoResponse(cached_data[1]), cache, {},
                  CacheReads(cache_key), {}, OriginOf(cache_key))
      ELSE Await(cache_key, CacheReads(cache_key))

\* get_user_info_twikit from the point where the awaited call completes.
TwikitUserEnd(request, cache_key, reads, answer) ==
  IF answer.raises
  THEN Raise(LibraryError, cache, {"get_user_by_screen_name"}, reads, {})
  ELSE IF answer.value = None
  THEN Raise(HTTPException(404, "User not found via Twikit"), cache,
             {"get_user_by_screen_name"}, reads, {})
  ELSE LET user == answer.value[1]
           response_data ==
             [username |-> request.username,
              display_name |-> Some(OrElse(user.name, request.username)),
              bio |-> Some(OrElse(user.description, "")),
              followers_count |-> Some(OrElse(user.followers_count, 0)),
              following_count |-> Some(OrElse(user.following_count, 0)),
              verified |-> Some(OrElse(user.verified, FALSE)),
              location |-> user.location,
              website |-> user.url,
              join_date |-> user.created_at]
       IN  Return(UserInfoResponse(response_data),
                  set_cached_data(cache, cache_key, response_data, USER_TTL, now),
                  {"get_user_by_screen_name"}, reads,
                  CacheWrites(cache_key, USER_TTL), now)

\* The except clauses of the three Twikit handlers.
TwikitExcept(ep, out) ==
  CASE ep = "/twikit/tweet" ->
         ExceptClauses(out, TRUE, "Failed to fetch tweet data via Twikit")
    [] ep = "/twikit/engagement" ->
         ExceptClauses(out, FALSE, "Failed to get engagement metrics via Twikit")
    [] ep = "/twikit/user" ->
         ExceptClauses(out, FALSE, "Failed to get user information via Twikit")

\* A Twikit handler from its first statement to its return, its raise, or its
\* awaited library call.
TwikitBegin(ep, request) ==
  IF ~TwikitReady
  THEN Raise(HTTPException(503, "Twikit service not initialized"), cache, {}, {}, {})
  ELSE CASE ep = "/twikit/tweet" -> TwikitExcept(ep, TwikitTweetBegin(request))
         [] ep = "/twikit/engagement" ->
              TwikitExcept(ep, TwikitEngagementBegin(request))
         [] ep = "/twikit/user" -> TwikitExcept(ep, TwikitUserBegin(request))

\* A suspended Twikit handler from the completion of its awaited call to its end.
TwikitEnd(h, answer) ==
  CASE h.ep = "/twikit/tweet" ->
         TwikitExcept(h.ep, TwikitTweetEnd(h.request, h.cache_key, h.reads, answer))
    [] h.ep = "/twikit/engagement" ->
         TwikitExcept(h.ep,
                      TwikitEngagementEnd(h.request, h.cache_key, h.reads, answer))
    [] h.ep = "/twikit/user" ->
         TwikitExcept(h.ep, TwikitUserEnd(h.request, h.cache_key, h.reads, answer))

(* ------------------------------ lifespan ------------------------------ *)
\* The globals as lifespan() can leave them: redis.from_url raised (nothing is
\* set), the Scweet constructor raised (only Redis is set), the Twikit client
\* failed (twikit_client = None), or everything was initialised.
LifespanOutcomes ==
  { [redis |-> FALSE, scweet |-> FALSE, twikit |-> FALSE],
    [redis |-> TRUE,  scweet |-> FALSE, twikit |-> FALSE],
    [redis |-> TRUE,  scweet |-> TRUE,  twikit |-> FALSE],
    [redis |-> TRUE,  scweet |-> TRUE,  twikit |-> TRUE] }

\* Variant of health_check: the flags do not follow the globals.
health_check_AlwaysReady ==
  [status |-> "healthy", service |-> "scweet-twikit", timestamp |-> IsoFormat(now),
   scweet_ready |-> TRUE, twikit_ready |-> TRUE]

\* GET /health
health_check ==
  [status |-> "healthy", service |-> "scweet-twikit", timestamp |-> IsoFormat(now),
   scweet_ready |-> scweet_instance, twikit_ready |-> twikit_client]

(* -------------------------------- log --------------------------------- *)
NoRequest ==
  [ep |-> "none", request |-> << >>, status |-> 0, detail |-> "", body |-> None,
   calls |-> {}, answers |-> << >>, reads |-> {}, writes |-> {}, looked |-> None,
   origin |-> -1]

\* The log entry of a request that ended with `out`.  answers maps each library
\* function the handler called to what that call did; looked is what Redis held,
\* and would give, for the request's key when the handler looked it up.
Log(ep, request, out, answers, looked) ==
  [ep |-> ep, request |-> request, status |-> out.exc.status,
   detail |-> out.exc.detail, body |-> out.body, calls |-> out.calls,
   answers |-> answers, reads |-> out.reads, writes |-> out.writes,
   looked |-> looked, origin |-> out.origin]

\* The key a handler derives from its request: cache_key = f"<prefix>:{...}".
RequestKey(ep, request) ==
  CASE ep = "/tweet" -> TweetKey(extract_tweet_id(request.tweet_url).value)
    [] ep = "/engagement" ->
         EngagementKey(extract_tweet_id(request.tweet_url).value)
    [] ep = "/user" -> UserKey(request.username)
    [] ep = "/twikit/tweet" ->
         TwikitTweetKey(extract_tweet_id(request.tweet_url).value)
    [] ep = "/twikit/engagement" ->
         TwikitEngagementKey(extract_tweet_id(request.tweet_url).value)
    [] ep = "/twikit/user" -> TwikitUserKey(request.username)

\* What the lookup of the request's key returned, when the handler made it.
Looked(ep, request, reads) ==
  IF reads = {} THEN None
  ELSE IF RequestKey(ep, request) \in reads
       THEN get_cached_data(RequestKey(ep, request))
       ELSE None

ScweetAnswers(out, lib) ==
  [c \in out.calls |-> IF c = "scrape" THEN lib.scrape ELSE lib.user_information]

Idle == [ep |-> "idle"]

(* ------------------------------ actions ------------------------------- *)
\* The handlers of one family read and write keys of that family only:
\*   tweet:             /tweet and /engagement   (tweet:<id>, engagement:<id>)
\*   user:              /user                    (user:<name>)
\*   twikit_tweet:      /twikit/tweet            (twikit_tweet:<id>)
\*   twikit_engagement: /twikit/engagement       (twikit_engagement:<id>)
\*   twikit_user:       /twikit/user             (twikit_user:<name>)
\* so requests of different families do not affect one another, and a behaviour
\* follows the requests of one family.
Families ==
  {"tweet", "user", "twikit_tweet", "twikit_engagement", "twikit_user"}

Init ==
  /\ \E o \in LifespanOutcomes :
       /\ redis_client = o.redis
       /\ scweet_instance = o.scweet
       /\ twikit_client = o.twikit
  /\ redis_ok \in BOOLEAN
  /\ cache = << >>
  /\ now = 0
  /\ nreq = 0
  /\ inflight = [p \in Procs |-> Idle]
  /\ last = NoRequest
  /\ family \in Families

\* The service process is restarted: lifespan() runs again; Redis keeps its keys.
Restart ==
  /\ last = NoRequest
  /\ \E o \in LifespanOutcomes :
       /\ redis_client' = o.redis
       /\ scweet_instance' = o.scweet
       /\ twikit_client' = o.twikit
  /\ inflight' = [p \in Procs |-> Idle]
  /\ UNCHANGED << redis_ok, cache, now, nreq, last, family >>

\* The instants at which the clock is observed: the start, and two, five and
\* thirty minutes later (past the first TTL, and at the other two).
Instants == {0, 2 * ENGAGEMENT_TTL, TWEET_TTL, USER_TTL}

\* Time passes, to a later instant.
Tick ==
  /\ last = NoRequest
  /\ \E t \in Instants : t > now /\ now' = t
  /\ UNCHANGED << scweet_instance, twikit_client, redis_client, redis_ok, cache,
                  nreq, inflight, last, family >>

\* The Redis server becomes unreachable, or reachable again.
RedisFlip ==
  /\ last = NoRequest
  /\ redis_ok' = ~redis_ok
  /\ UNCHANGED << scweet_instance, twikit_client, redis_client, cache, now,
                  nreq, inflight, last, family >>

\* The response of the request that has just completed is sent to its client.
\* The log holds one response at a time: nothing else runs until it is sent.
Respond ==
  /\ last # NoRequest
  /\ last' = NoRequest
  /\ UNCHANGED << scweet_instance, twikit_client, redis_client, redis_ok, cache,
                  now, nreq, inflight, family >>

\* A handler of a Scweet endpoint runs from start to end: it awaits nothing
\* that suspends (the Redis client and the Scweet calls are synchronous).
Complete(ep, request, out, answers) ==
  /\ cache' = out.cache
  /\ last' = Log(ep, request, out, answers, Looked(ep, request, out.reads))
  /\ nreq' = nreq + 1
  /\ UNCHANGED << scweet_instance, twikit_client, redis_client, redis_ok, now,
                  inflight, family >>

\* The library answers of a request whose handler calls nothing.
Silent ==
  [scrape |-> [raises |-> TRUE, results |-> << >>],
   user_information |-> [raises |-> TRUE, data |-> EmptyDict]]

\* A library answer is drawn only for a call the handler makes: the answers
\* drawn for a request whose handler ends with `silent` when nothing answers.
Drawn(silent, username) ==
  IF silent.calls = {} THEN {Silent} ELSE ScweetLib(username)

Asked(out, lib) ==
  /\ "scrape" \notin out.calls => lib.scrape.raises
  /\ "get_user_information" \notin out.calls => lib.user_information.raises

Health ==
  /\ last = NoRequest
  /\ nreq < MaxRequests
  /\ Complete("/health", << >>,
              Return(health_check, cache, {}, {}, {}, -1), << >>)

Tweet ==
  /\ last = NoRequest
  /\ nreq < MaxRequests
  /\ family = "tweet"
  /\ \E request \in TweetRequests :
       \E lib \in Drawn(get_tweet_data(request, Silent), request.tweet_url.user) :
         LET out == get_tweet_data(request, lib)
         IN  /\ Asked(out, lib)
             /\ Complete("/tweet", request, out, ScweetAnswers(out, lib))

Engagement ==
  /\ last = NoRequest
  /\ nreq < MaxRequests
  /\ family = "tweet"
  /\ \E request \in EngagementRequests :
       \E lib \in Drawn(get_engagement_metrics(request, Silent),
                         request.tweet_url.user) :
         LET out == get_engagement_metrics(request, lib)
         IN  /\ Asked(out, lib)
             /\ Complete("/engagement", request, out, ScweetAnswers(out, lib))

User ==
  /\ last = NoRequest
  /\ nreq < MaxRequests
  /\ family = "user"
  /\ \E request \in UserInfoRequests :
       \E lib \in Drawn(get_user_info(request, Silent), request.username) :
         LET out == get_user_info(request, lib)
         IN  /\ Asked(out, lib)
             /\ Complete("/user", request, out, ScweetAnswers(out, lib))

\* Variant of TwikitStart: the Twikit call does not suspend the handler, which
\* runs from start to end in one step.
TwikitStart_Atomic(p, ep, request) ==
  /\ last = NoRequest
  /\ nreq < MaxRequests
  /\ p = 1
  /\ LET out == TwikitBegin(ep, request)
     IN  IF out.kind = "await"
         THEN \E answer \in (IF ep = "/twikit/user" THEN UserByScreenNameOutcomes
                                ELSE TweetByIdOutcomes) :
                LET h == [ep |-> ep, request |-> request,
                          cache_key |-> out.cache_key, reads |-> out.reads]
                    end == TwikitEnd(h, answer)
                IN  Complete(ep, request, end, [c \in end.calls |-> answer])
         ELSE Complete(ep, request, out, << >>)

\* A request to a Twikit endpoint arrives: its handler runs until it returns,
\* raises, or suspends at `await twikit_client.<call>`.
TwikitStart(p, ep, request) ==
  /\ last = NoRequest
  /\ nreq < MaxRequests
  /\ inflight[p] = Idle
  /\ \A q \in Procs : q < p => inflight[q] # Idle
  /\ LET out == TwikitBegin(ep, request)
     IN  IF out.kind = "await"
         THEN /\ inflight' = [inflight EXCEPT ![p] =
                   [ep |-> ep, request |-> request,
                    cache_key |-> out.cache_key, reads |-> out.reads,
                    looked |-> Looked(ep, request, out.reads)]]
              /\ nreq' = nreq + 1
              /\ UNCHANGED << scweet_instance, twikit_client, redis_client,
                              redis_ok, cache, now, last, family >>
         ELSE Complete(ep, request, out, << >>)

TwikitTweet ==
  /\ family = "twikit_tweet"
  /\ \E p \in Procs : \E request \in TweetRequests :
       TwikitStart(p, "/twikit/tweet", request)

TwikitEngagement ==
  /\ family = "twikit_engagement"
  /\ \E p \in Procs : \E request \in EngagementRequests :
       TwikitStart(p, "/twikit/engagement", request)

TwikitUser ==
  /\ family = "twikit_user"
  /\ \E p \in Procs : \E request \in UserInfoRequests :
       TwikitStart(p, "/twikit/user", request)

TwikitAnswers(ep) ==
  IF ep = "/twikit/user" THEN UserByScreenNameOutcomes ELSE TweetByIdOutcomes

\* The awaited Twikit call of a suspended handler completes and the handler
\* runs to its end.
TwikitResume ==
  \E p \in Procs :
    /\ last = NoRequest
    /\ inflight[p] # Idle
    /\ \E answer \in TwikitAnswers(inflight[p].ep) :
         LET out == TwikitEnd(inflight[p], answer)
         IN  /\ cache' = out.cache
             /\ last' = Log(inflight[p].ep, inflight[p].request, out,
                            [c \in out.calls |-> answer], inflight[p].looked)
             /\ inflight' = [inflight EXCEPT ![p] = Idle]
             /\ UNCHANGED << scweet_instance, twikit_client, redis_client,
                             redis_ok, now, nreq, family >>

Next ==
  \/ Restart
  \/ Tick
  \/ RedisFlip
  \/ Respond
  \/ Health
  \/ Tweet
  \/ Engagement
  \/ User
  \/ TwikitTweet
  \/ TwikitEngagement
  \/ TwikitUser
  \/ TwikitResume

Spec == Init /\ [][Next]_vars

(* ---------------------- vocabulary of the properties ------------------ *)
ScweetEndpoints == {"/tweet", "/engagement", "/user"}
TwikitEndpoints == {"/twikit/tweet", "/twikit/engagement", "/twikit/user"}
DataEndpoints == ScweetEndpoints \cup TwikitEndpoints
UrlEndpoints == {"/tweet", "/engagement", "/twikit/tweet", "/twikit/engagement"}

\* The log holds a request to a data endpoint that has just been answered.
Served == last.ep \in DataEndpoints

\* The response model of an endpoint applied to a stored or built record.
ResponseOf(ep, d) ==
  CASE ep \in {"/tweet", "/twikit/tweet"} -> TweetResponse(d)
    [] ep \in {"/engagement", "/twikit/engagement"} -> EngagementResponse(d)
    [] ep \in {"/user", "/twikit/user"} -> UserInfoResponse(d)

LastKey == RequestKey(last.ep, last.request)

\* Redis can be reached and holds an unexpired entry under key k.
LiveEntry(k) ==
  /\ redis_client
  /\ redis_ok
  /\ k \in DOMAIN cache
  /\ now < cache[k].expires

BackendReady(ep) == IF ep \in ScweetEndpoints THEN scweet_instance ELSE twikit_client

(* ------------------------------- C1 ----------------------------------- *)
\* C1: on each of the six data endpoints, a request whose cache lookup returns
\* an entry is answered with that entry passed through the endpoint's response
\* model, and no scraping or Twikit function is called.
C1_CacheHitShortCircuits ==
  (Served /\ last.looked # None) =>
    /\ last.status = 200
    /\ last.body = Some(ResponseOf(last.ep, last.looked[1]))
    /\ last.calls = {}

\* A /twikit/engagement request answered from an entry the key held.
C1_Witness ==
  /\ last.ep = "/twikit/engagement"
  /\ last.looked # None
  /\ last.status = 200

(* ------------------------------- C2 ----------------------------------- *)
\* A request that missed and whose library call succeeded leaves its record,
\* unexpired, under its key.
StoredAfterMiss ==
  /\ LastKey \in DOMAIN cache
  /\ now < cache[LastKey].expires
  /\ ResponseOf(last.ep, JsonLoads(cache[LastKey].data)) = last.body[1]

MissThatSucceeded == Served /\ last.status = 200 /\ last.calls # {}

LaterRequestHits ==
  /\ ( /\ nreq' = nreq + 1
       /\ inflight' = inflight
       /\ last'.ep \in DataEndpoints
       /\ RequestKey(last'.ep, last'.request) \in last'.reads
       /\ LiveEntry(RequestKey(last'.ep, last'.request)) )
     => /\ last'.calls = {}
        /\ last'.body =
             Some(ResponseOf(last'.ep,
                   JsonLoads(cache[RequestKey(last'.ep, last'.request)].data)))
  /\ \A p \in Procs :
       (inflight[p] = Idle /\ inflight'[p] # Idle)
         => ~LiveEntry(inflight'[p].cache_key)

PrimaryFailed ==
  /\ last.ep = "/tweet"
  /\ "scrape" \in last.calls
  /\ LET answer == last.answers["scrape"]
         tweet_id == extract_tweet_id(last.request.tweet_url).value
     IN  \/ answer.raises
         \/ \A i \in DOMAIN answer.results :
              ~EndsWith(answer.results[i].tweetId, tweet_id)

\* C3 as the specification states it: when the primary fetch fails, the same
\* request is answered from Twikit and the record is cached.
C3_Original ==
  PrimaryFailed =>
    /\ last.status = 200
    /\ "get_tweet_by_id" \in last.calls
    /\ last.writes # {}

\* C3, amended: when the Scweet fetch of a /tweet request fails or finds no
\* matching tweet, the request ends with an error: no Twikit function is called,
\* no record is returned and nothing is written to the cache.  Twikit is called
\* only by the /twikit endpoints, Scweet only by the other three.
C3_Amended ==
  /\ PrimaryFailed =>
       /\ last.status # 200
       /\ last.body = None
       /\ last.calls = {"scrape"}
       /\ last.writes = {}
  /\ last.ep \in ScweetEndpoints =>
       last.calls \subseteq {"scrape", "get_user_information"}
  /\ last.ep \in TwikitEndpoints =>
       last.calls \subseteq {"get_tweet_by_id", "get_user_by_screen_name"}

\* A /tweet request whose scrape returned only a tweet with another id.
C3_Witness ==
  /\ PrimaryFailed
  /\ ~last.answers["scrape"].raises
  /\ last.answers["scrape"].results # << >>

(* ------------------------------- C4 ----------------------------------- *)
SpecPrefixes == {"tweet:", "engagement:", "user:"}
CodePrefixes ==
  SpecPrefixes \cup {"twikit_tweet:", "twikit_engagement:", "twikit_user:"}

\* The lifetime of each kind of record.
KindTTL(prefix) ==
  CASE prefix \in {"tweet:", "twikit_tweet:"} -> TWEET_TTL
    [] prefix \in {"engagement:", "twikit_engagement:"} -> ENGAGEMENT_TTL
    [] prefix \in {"user:", "twikit_user:"} -> USER_TTL

\* C4 as the specification states it: every key written starts with tweet:,
\* engagement: or user:, with that kind's TTL.
C4_Original ==
  /\ \A w \in last.writes : w[1][1] \in SpecPrefixes /\ w[2] = KindTTL(w[1][1])
  /\ \A k \in DOMAIN cache : k[1] \in SpecPrefixes

\* C4, amended: every key written starts with tweet:, engagement:, user:,
\* twikit_tweet:, twikit_engagement: or twikit_user:, with a TTL of 300, 60 or
\* 1800 seconds for a tweet, engagement or user record; an entry written now
\* expires one TTL from now, and no entry is served once its TTL has elapsed.
C4_Amended ==
  /\ \A w \in last.writes :
       /\ w[1][1] \in CodePrefixes
       /\ w[2] = KindTTL(w[1][1])
       /\ redis_ok => (w[1] \in DOMAIN cache /\ cache[w[1]].expires = now + w[2])
  /\ \A k \in DOMAIN cache : k[1] \in CodePrefixes
  /\ (Served /\ last.looked # None) =>
       (LastKey \in DOMAIN cache /\ now < cache[LastKey].expires)

\* An /engagement request found its key's entry expired and did not serve it.
C4_Witness ==
  /\ last.ep = "/engagement"
  /\ redis_ok
  /\ LastKey \in last.reads
  /\ LastKey \in DOMAIN cache
  /\ now >= cache[LastKey].expires
  /\ last.looked = None

(* ------------------------------- C5 ----------------------------------- *)
\* The detail strings the handlers attach to each error status.
FixedMessages(status) ==
  CASE status = 400 ->
         {"Invalid tweet URL format", "Cannot extract username from URL"}
    [] status = 404 ->
         {"Tweet not found in recent tweets", "User not found or profile is private",
          "Tweet not found via Twikit", "User not found via Twikit"}
    [] status = 500 ->
         {"Failed to scrape tweet data", "Failed to get engagement metrics",
          "Failed to get user information", "Failed to fetch tweet data via Twikit",
          "Failed to get engagement metrics via Twikit",
          "Failed to get user information via Twikit"}
    [] status = 503 ->
         {"Scweet service not initialized", "Twikit service not initialized"}

\* C5: a request to a data endpoint ends either with a success body or with an
\* HTTP error whose status is 400, 404, 500 or 503 and whose detail is one of
\* the handlers' fixed messages; no exception leaves a handler in another form.
C5_SuccessOrFixedError ==
  Served =>
    \/ last.status = 200 /\ last.body # None
    \/ /\ last.status \in {400, 404, 500, 503}
       /\ last.body = None
       /\ last.detail \in FixedMessages(last.status)

(* ------------------------------- C6 ----------------------------------- *)
\* The library answered without raising, and without the requested object.
NotFound ==
  /\ Served
  /\ last.calls # {}
  /\ CASE last.ep = "/tweet" ->
            /\ ~last.answers["scrape"].raises
            /\ \A i \in DOMAIN last.answers["scrape"].results :
                 ~EndsWith(last.answers["scrape"].results[i].tweetId,
                           extract_tweet_id(last.request.tweet_url).value)
       [] last.ep = "/user" ->
            /\ ~last.answers["get_user_information"].raises
            /\ last.request.username
                 \notin DOMAIN last.answers["get_user_information"].data
       [] last.ep \in {"/twikit/tweet", "/twikit/engagement"} ->
            /\ ~last.answers["get_tweet_by_id"].raises
            /\ last.answers["get_tweet_by_id"].value = None
       [] last.ep = "/twikit/user" ->
            /\ ~last.answers["get_user_by_screen_name"].raises
            /\ last.answers["get_user_by_screen_name"].value = None
       [] OTHER -> FALSE

\* C6: a library answer that holds no tweet, or no user, for the request ends
\* the request with HTTP 404.
C6_NotFoundIs404 ==
  NotFound => (last.status = 404 /\ last.detail \in FixedMessages(404))

(* ------------------------------- C7 ----------------------------------- *)
HasStatusId(tweet_url) ==
  /\ tweet_url.seg = "status"
  /\ tweet_url.tail # << >>
  /\ Head(tweet_url.tail) \in 0..9

HasUsername(tweet_url) ==
  /\ tweet_url.host \in {"x.com", "twitter.com"}
  /\ tweet_url.user # ""
  /\ tweet_url.seg = "status"

\* The URL of a /tweet or /twikit/tweet request lacks what the endpoint
\* extracts from it.
Malformed ==
  /\ last.ep \in {"/tweet", "/twikit/tweet"}
  /\ \/ ~HasStatusId(last.request.tweet_url)
     \/ last.ep = "/tweet" /\ ~HasUsername(last.request.tweet_url)

RejectedUntouched ==
  /\ last.status = 400
  /\ last.detail \in FixedMessages(400)
  /\ last.reads = {}
  /\ last.writes = {}
  /\ last.calls = {}

\* C7 as the specification states it: every /tweet or /twikit/tweet request
\* with such a URL is answered with HTTP 400.
C7_Original == Malformed => RejectedUntouched

\* C7, amended: while the endpoint's backend is initialised, a /tweet or
\* /twikit/tweet request whose URL has no /status/<digits> segment (for /tweet,
\* also one without an x.com or twitter.com username) is answered with HTTP
\* 400, with no cache read, no cache write and no library call.
C7_Amended == (Malformed /\ BackendReady(last.ep)) => RejectedUntouched

\* /tweet answered 400 for a URL without a username while Redis held an
\* unexpired entry for the tweet the URL names.
C7_Witness ==
  /\ last.ep = "/tweet"
  /\ Malformed
  /\ last.status = 400
  /\ HasStatusId(last.request.tweet_url)
  /\ LiveEntry(LastKey)

(* ------------------------------- C8 ----------------------------------- *)
\* C8: a request to an endpoint whose backend is not initialised ends with
\* HTTP 503, having touched neither the cache nor a library.
C8_UninitialisedIs503 ==
  (Served /\ ~BackendReady(last.ep)) =>
    /\ last.status = 503
    /\ last.reads = {}
    /\ last.writes = {}
    /\ last.calls = {}

\* /tweet answered 503 after a restart that left Scweet uninitialised, while
\* Redis still held the tweet's unexpired entry.
C8_Witness ==
  /\ last.ep = "/tweet"
  /\ ~scweet_instance
  /\ last.status = 503
  /\ HasStatusId(last.request.tweet_url)
  /\ LiveEntry(LastKey)

(* ------------------------------- C9 ----------------------------------- *)
\* C9: a successful /engagement request takes its counts from a library fetch
\* made for it when its key missed, and never returns counts fetched more than
\* 60 seconds earlier.
C9_EngagementIsFresh ==
  (last.ep = "/engagement" /\ last.status = 200) =>
    /\ now - last.origin <= ENGAGEMENT_TTL
    /\ (LastKey \in last.reads /\ last.looked = None) =>
         ("scrape" \in last.calls /\ last.origin = now)

(* ------------------------------- C10 ---------------------------------- *)
\* No field that has a default is null in the body.
DefaultsCarried(ep, body) ==
  CASE ep \in {"/tweet", "/twikit/tweet"} ->
         /\ body.author.display_name # None
         /\ body.author.verified # None
         /\ body.author.followers_count # None
         /\ body.author.following_count # None
    [] ep \in {"/user", "/twikit/user"} ->
         /\ body.display_name # None
         /\ body.bio # None
         /\ body.followers_count # None
         /\ body.following_count # None
         /\ body.verified # None
    [] OTHER -> TRUE

\* C10: a success body built from a library record carries the default for
\* every field that the record leaves out.
C10_DefaultsForMissingFields ==
  (Served /\ last.status = 200 /\ last.calls # {}) =>
    DefaultsCarried(last.ep, last.body[1])

(* ------------------------------- C11 ---------------------------------- *)
\* A step that ends a request whose handler called a library.
EndsWithCall ==
  /\ last = NoRequest
  /\ last' # NoRequest
  /\ last'.ep \in DataEndpoints
  /\ last'.calls # {}

\* The request that ends in this step had arrived in an earlier step and was
\* suspended since: other handlers could run between its lookup and its write.
WasSuspended ==
  /\ nreq' = nreq
  /\ \E p \in Procs : inflight[p] # Idle /\ inflight'[p] = Idle

\* The request that ends in this step arrived in this step: nothing ran
\* between its first statement and its last.
RanAtOnce == nreq' = nreq + 1 /\ inflight' = inflight

\* C11 as the specification states it: a handler that calls its library is
\* suspended at that call, on the Scweet endpoints as on the Twikit ones.
C11_Original == [][ EndsWithCall => WasSuspended ]_vars

\* C11, amended: a handler is suspended only at an awaited Twikit call.  A
\* Twikit handler that calls its library is suspended there, so other handlers
\* run between its lookup and its write; a Scweet handler runs from its first
\* statement to its last with no step of another handler in between, and no
\* handler is suspended at a cache call (one answered from the cache ends in
\* the step in which it arrived).
C11_Amended ==
  [][ /\ EndsWithCall =>
           IF last'.ep \in TwikitEndpoints THEN WasSuspended ELSE RanAtOnce
      /\ (last = NoRequest /\ last' # NoRequest /\ last'.calls = {}) => RanAtOnce
      /\ \A p \in Procs :
           (inflight[p] = Idle /\ inflight'[p] # Idle) =>
             inflight'[p].ep \in TwikitEndpoints ]_vars

\* A Twikit handler wrote its key while another handler, which had looked up
\* the same key before, was still suspended at its library call.
C11_Witness ==
  /\ last.ep \in TwikitEndpoints
  /\ last.writes # {}
  /\ \E p \in Procs :
       /\ inflight[p] # Idle
       /\ inflight[p].cache_key = LastKey
       /\ LastKey \in inflight[p].reads

(* ------------------------------- C12 ---------------------------------- *)
\* The Scweet endpoints, respectively the Twikit endpoints, would answer 503 now.
ScweetAnswers503 ==
  /\ \A request \in TweetRequests : get_tweet_data(request, Silent).exc.status = 503
  /\ \A request \in EngagementRequests :
       get_engagement_metrics(request, Silent).exc.status = 503
  /\ \A request \in UserInfoRequests : get_user_info(request, Silent).exc.status = 503

TwikitAnswers503 ==
  /\ \A request \in TweetRequests :
       TwikitBegin("/twikit/tweet", request).exc.status = 503
  /\ \A request \in EngagementRequests :
       TwikitBegin("/twikit/engagement", request).exc.status = 503
  /\ \A request \in UserInfoRequests :
       TwikitBegin("/twikit/user", request).exc.status = 503

\* C12: the health check can be answered in every state in which a request can
\* be accepted; its answer is a success with status 'healthy', and its flags
\* scweet_ready and twikit_ready equal the current state of the two globals,
\* which is exactly when the corresponding endpoints do not answer 503.
C12_HealthReportsReadiness ==
  /\ (last = NoRequest /\ nreq < MaxRequests) => ENABLED Health
  /\ last.ep = "/health" =>
       /\ last.status = 200
       /\ last.body[1].status = "healthy"
       /\ last.body[1].scweet_ready = scweet_instance
       /\ last.body[1].twikit_ready = twikit_client
       /\ last.body[1].scweet_ready = ~ScweetAnswers503
       /\ last.body[1].twikit_ready = ~TwikitAnswers503

\* The health check answered after a restart that lost Scweet, with records of
\* the earlier run still in Redis.
C12_Witness ==
  /\ last.ep = "/health"
  /\ ~last.body[1].scweet_ready
  /\ DOMAIN cache # {}

(* ------------------------------- C13 ---------------------------------- *)
\* The body of a /tweet response is built from the scrape result t.
BuiltFrom(body, t) ==
  /\ body.content = Get(t, "Text", << >>)
  /\ body.engagement.likes = ToInt(Get(t, "Likes", <<0>>))
  /\ body.engagement.retweets = ToInt(Get(t, "Retweets", <<0>>))
  /\ body.engagement.replies = ToInt(Get(t, "Replies", <<0>>))

\* C13: a /tweet response built from a scrape is built from the first scrape
\* result whose tweetId is the requested id, and that record is the one stored
\* under the request's key.
C13_ExactTweet ==
  (last.ep = "/tweet" /\ last.status = 200 /\ "scrape" \in last.calls) =>
    LET results == last.answers["scrape"].results
        tweet_id == extract_tweet_id(last.request.tweet_url).value
    IN  \E i \in DOMAIN results :
          /\ results[i].tweetId = tweet_id
          /\ \A j \in 1..(i - 1) : results[j].tweetId # tweet_id
          /\ BuiltFrom(last.body[1], results[i])
          /\ LiveEntry(LastKey) =>
               BuiltFrom(JsonLoads(cache[LastKey].data), results[i])

(* ------------------------------- C14 ---------------------------------- *)
\* The author block when no user info is used.
DefaultAuthor(username) ==
  [username |-> username, display_name |-> Some(username),
   verified |-> Some(FALSE), followers_count |-> Some(0),
   following_count |-> Some(0)]

\* The author block that carries what the profile reports.
ReportedAuthor(username, profile) ==
  [username |-> username,
   display_name |-> Get(profile, "name", Some(username)),
   verified |-> Get(profile, "verified", Some(FALSE)),
   followers_count |-> Get(profile, "followers", Some(0)),
   following_count |-> Get(profile, "following", Some(0))]

\* C14: a successful /tweet response to a request with include_user_info =
\* false carries the default author fields, and one to a request with
\* include_user_info = true for which the library returned the user's profile
\* carries the fields of that profile, whatever was served before.
C14_IncludeUserInfoHonoured ==
  (last.ep = "/tweet" /\ last.status = 200) =>
    LET username == extract_username(last.request.tweet_url).value
    IN  /\ ~last.request.include_user_info =>
             last.body[1].author = DefaultAuthor(username)
        /\ ( /\ last.request.include_user_info
             /\ "get_user_information" \in last.calls
             /\ ~last.answers["get_user_information"].raises
             /\ username \in DOMAIN last.answers["get_user_information"].data )
           => last.body[1].author =
                ReportedAuthor(username,
                               last.answers["get_user_information"].data[username])

(* ------------------------------- C15 ---------------------------------- *)
\* The log of a /tweet request whose scrape found a tweet and whose user-info
\* call raised or returned no entry for the username.
UserInfoFailed(log) ==
  /\ log.ep = "/tweet"
  /\ "get_user_information" \in log.calls
  /\ \/ log.answers["get_user_information"].raises
     \/ extract_username(log.request.tweet_url).value
          \notin DOMAIN log.answers["get_user_information"].data

\* The same request without user info, on the same scrape answer.
WithoutUserInfo(log) ==
  get_tweet_data([log.request EXCEPT !.include_user_info = FALSE],
                 [scrape |-> log.answers["scrape"],
                  user_information |-> Silent.user_information])

\* C15: a /tweet request whose user-info call fails ends exactly as the same
\* request would without user info (same status, same body, same record
\* stored): it succeeds whenever the found tweet's counts convert, with the
\* default author fields in the response and in the record written to the cache.
C15_UserInfoFailureTolerated ==
  [][ (last = NoRequest /\ last' # NoRequest /\ UserInfoFailed(last')) =>
        /\ last'.status = WithoutUserInfo(last').exc.status
        /\ last'.body = WithoutUserInfo(last').body
        /\ cache' = WithoutUserInfo(last').cache
        /\ CountsOk(FindTweet(last'.answers["scrape"].results,
                              extract_tweet_id(last'.request.tweet_url).value)[1])
             => last'.status = 200
        /\ last'.status = 200 =>
             /\ last'.body[1].author =
                  DefaultAuthor(extract_username(last'.request.tweet_url).value)
             /\ \A w \in last'.writes :
                  redis_ok =>
                    JsonLoads(cache'[w[1]].data).author = last'.body[1].author
      ]_vars

\* /tweet succeeded although get_user_information raised, and its record is
\* in the cache.
C15_Witness ==
  /\ UserInfoFailed(last)
  /\ last.answers["get_user_information"].raises
  /\ last.status = 200
  /\ LiveEntry(LastKey)

(* ------------------------------- C16 ---------------------------------- *)
\* The cache is absent, or its calls raise.
RedisDown == ~redis_client \/ ~redis_ok

\* The request of the log passes what its handler tests before the cache:
\* the backend is initialised and the identifiers can be extracted (/engagement
\* extracts the username too, in its call of get_tweet_data).
GatesPassed(log) ==
  /\ BackendReady(log.ep)
  /\ log.ep \in UrlEndpoints => HasStatusId(log.request.tweet_url)
  /\ log.ep \in {"/tweet", "/engagement"} => HasUsername(log.request.tweet_url)

\* The library gave the handler what it needs to build its record.
Usable(log) ==
  CASE log.ep \in {"/tweet", "/engagement"} ->
         /\ "scrape" \in log.calls
         /\ ~log.answers["scrape"].raises
         /\ LET found == FindTweet(log.answers["scrape"].results,
                                   extract_tweet_id(log.request.tweet_url).value)
            IN  found # None /\ CountsOk(found[1])
    [] log.ep = "/user" ->
         /\ "get_user_information" \in log.calls
         /\ ~log.answers["get_user_information"].raises
         /\ log.request.username \in DOMAIN log.answers["get_user_information"].data
    [] log.ep \in {"/twikit/tweet", "/twikit/engagement"} ->
         /\ "get_tweet_by_id" \in log.calls
         /\ ~log.answers["get_tweet_by_id"].raises
         /\ log.answers["get_tweet_by_id"].value # None
    [] log.ep = "/twikit/user" ->
         /\ "get_user_by_screen_name" \in log.calls
         /\ ~log.answers["get_user_by_screen_name"].raises
         /\ log.answers["get_user_by_screen_name"].value # None

\* C16: while the cache is absent or its calls raise, a request ends as it
\* would on a working, empty cache: its lookup is a miss, a handler that
\* passes its checks goes on to its library call, the request succeeds exactly
\* when the library gives a usable answer, and the failed write changes nothing.
C16_CacheFailuresTolerated ==
  [][ (RedisDown /\ last = NoRequest /\ last' # NoRequest
         /\ last'.ep \in DataEndpoints) =>
        /\ cache' = cache
        /\ last'.looked = None
        /\ GatesPassed(last') => last'.calls # {}
        /\ last'.status = 200 <=> (GatesPassed(last') /\ Usable(last'))
        /\ \A p \in Procs :
             (inflight[p] = Idle /\ inflight'[p] # Idle) =>
               inflight'[p].looked = None
      ]_vars

\* A request succeeded from its library call while Redis held a live entry for
\* its key that could not be read, and the write that followed was lost.
C16_Witness ==
  /\ Served
  /\ ~redis_ok
  /\ last.status = 200
  /\ last.calls # {}
  /\ last.writes # {}
  /\ LastKey \in DOMAIN cache
  /\ now < cache[LastKey].expires

(* ------------------------------- C17 ---------------------------------- *)
\* The body of a Twikit response is built from the library answer in the log.
OwnRecord(log) ==
  CASE log.ep \in {"/twikit/tweet", "/twikit/engagement"} ->
         LET tweet == log.answers["get_tweet_by_id"].value[1]
             counts == IF log.ep = "/twikit/tweet" THEN log.body[1].engagement
                       ELSE log.body[1]
         IN  /\ counts.likes = OrElse(tweet.favorite_count, 0)
             /\ counts.retweets = OrElse(tweet.retweet_count, 0)
             /\ counts.replies = OrElse(tweet.reply_count, 0)
             /\ log.ep = "/twikit/tweet" =>
                  log.body[1].content = OrElse(tweet.text, << >>)
    [] log.ep = "/twikit/user" ->
         LET user == log.answers["get_user_by_screen_name"].value[1]
         IN  /\ log.body[1].display_name =
                  Some(OrElse(user.name, log.request.username))
             /\ log.body[1].followers_count = Some(OrElse(user.followers_count, 0))
             /\ log.body[1].location = user.location

\* A suspended Twikit handler resumes and ends with a success.
ResumesWithSuccess ==
  /\ last = NoRequest
  /\ last' # NoRequest
  /\ WasSuspended
  /\ last'.status = 200

\* C17: a Twikit handler that was suspended at its library call, whatever
\* another request wrote under its key meanwhile, ends with the record built
\* from its own library answer and writes it: the entry that remains under
\* the key is the one written last, expiring one TTL after that write.  A
\* second request for a cold key on which a handler is suspended misses too.
C17_NoCoordination ==
  [][ /\ ResumesWithSuccess =>
           LET key == RequestKey(last'.ep, last'.request)
           IN  /\ last'.calls # {}
               /\ OwnRecord(last')
               /\ last'.writes = {<<key, KindTTL(key[1])>>}
               /\ redis_ok =>
                    /\ key \in DOMAIN cache'
                    /\ ResponseOf(last'.ep, JsonLoads(cache'[key].data))
                         = last'.body[1]
                    /\ cache'[key].expires = now + KindTTL(key[1])
      /\ \A p, q \in Procs :
           ( /\ inflight[p] # Idle
             /\ inflight[q] = Idle
             /\ inflight'[q] # Idle
             /\ inflight'[q].cache_key = inflight[p].cache_key )
           => (inflight'[q].looked = None /\ inflight'[p] = inflight[p])
    ]_vars

\* Two requests to /twikit/engagement for the same tweet both missed the cold
\* key and both reached the library; one has ended and written the key, the
\* other is still at its library call and will write after it.
C17_Witness ==
  /\ last.ep = "/twikit/engagement"
  /\ last.status = 200
  /\ last.looked = None
  /\ last.calls = {"get_tweet_by_id"}
  /\ LiveEntry(LastKey)
  /\ \E p \in Procs :
       /\ inflight[p] # Idle
       /\ inflight[p].ep = last.ep
       /\ inflight[p].request = last.request
       /\ inflight[p].looked = None

====
